---------------------------- MODULE Spec2Model ----------------------------
(***************************************************************************)
(* sentry: the soft-delete record (sentry/db/models/paranoia.py) and the   *)
(* password validator pipeline (sentry/auth/password_validation.py).       *)
(*                                                                         *)
(* Spec   : the soft-delete storage with concurrent callers.               *)
(* SpecPw : calls into the password validation module.                     *)
(***************************************************************************)
EXTENDS Integers, Sequences, FiniteSets

VARIABLES
    rows,        \* storage: primary key -> date_deleted column (NULL or <<t>>)
    now,         \* the clock behind timezone.now()
    inserted,    \* history: every primary key ever inserted
    pending,     \* per caller: the delete call in flight (argument evaluated, UPDATE not yet run)
    firstCall,   \* history: per key, time of the earliest delete call that names it
    regressed,   \* history: per key, whether an UPDATE replaced a later timestamp by an earlier one
    ndel,        \* history: per key, single-record deletes that reached the row (2 = two or more)
    ncalls,      \* delete calls made so far
    request,     \* password module: the call made and its arguments
    response     \* password module: what that call did

vars == <<rows, now, inserted, pending, firstCall, regressed, ndel, ncalls,
          request, response>>

pwVars == <<request, response>>

---------------------------------------------------------------------------
(* Bounds of the model *)

MaxRecords == 2

MaxTime == 1

MaxCalls == 2

MaxPwLen == 3

MaxLimit == 2

MaxValidators == 3

Procs == {"p1", "p2"}

Ids == 1..MaxRecords

---------------------------------------------------------------------------
(* Soft-delete record *)

\* date_deleted = models.DateTimeField(null=True, blank=True)
NULL == <<>>

Stamp(t) == <<t>>

TimeOf(d) == d[1]

\* BaseManager(): no filter, every stored row
with_deleted(storage) == DOMAIN storage

\* faulty variant: the manager forgets the date_deleted__isnull filter
M_get_queryset_unfiltered(storage) == DOMAIN storage

\* ParanoidManager.get_queryset: .filter(date_deleted__isnull=True)
ParanoidManager_get_queryset(storage) ==
    {pk \in DOMAIN storage : storage[pk] = NULL}

\* QuerySet.filter(pk__in=ids) on top of a query set
filter(qs, ids) == qs \cap ids

\* QuerySet.update(date_deleted=t): one UPDATE over the rows the query set selects
QuerySet_update(storage, qs, t) ==
    [pk \in DOMAIN storage |-> IF pk \in qs THEN Stamp(t) ELSE storage[pk]]

\* BaseModel.update(date_deleted=t): the single-record update primitive,
\* an UPDATE of the row whose primary key is the instance's
BaseModel_update(storage, pk, t) ==
    [k \in DOMAIN storage |-> IF k = pk THEN Stamp(t) ELSE storage[k]]

\* faulty variant: delete is not overridden, the row is removed
M_ModelHardDelete(storage, pk, t) ==
    [k \in DOMAIN storage \ {pk} |-> storage[k]]

\* faulty variant: delete writes date_deleted=None
M_ModelDeleteNull(storage, pk, t) ==
    [k \in DOMAIN storage |-> IF k = pk THEN NULL ELSE storage[k]]

\* faulty variant: a second delete restores the record
M_ModelDeleteToggle(storage, pk, t) ==
    [k \in DOMAIN storage |->
        IF k = pk THEN (IF storage[k] = NULL THEN Stamp(t) ELSE NULL) ELSE storage[k]]

\* faulty variant: delete only stamps a record that is still alive
M_ModelDeleteKeepFirst(storage, pk, t) ==
    [k \in DOMAIN storage |->
        IF k = pk /\ storage[k] = NULL THEN Stamp(t) ELSE storage[k]]

\* ParanoidModel.delete, once timezone.now() has been evaluated to t
ParanoidModel_delete(storage, pk, t) == BaseModel_update(storage, pk, t)

\* ParanoidQuerySet.delete on objects.filter(pk__in=ids), once timezone.now() is t
ParanoidQuerySet_delete(storage, ids, t) ==
    QuerySet_update(storage, filter(ParanoidManager_get_queryset(storage), ids), t)

\* QuerySet.delete on with_deleted.filter(pk__in=ids): the stock DELETE
BaseQuerySet_delete(storage, ids) ==
    [pk \in DOMAIN storage \ filter(with_deleted(storage), ids) |-> storage[pk]]

Idle == [op |-> "idle", ids |-> {}, t |-> 0]

Min(a, b) == IF a <= b THEN a ELSE b

Earliest(d, t) == IF d = NULL THEN Stamp(t) ELSE Stamp(Min(TimeOf(d), t))

Regresses(d, t) == d # NULL /\ t < TimeOf(d)

NoRequest ==
    [op |-> "none", password |-> <<>>, config |-> <<>>, validators |-> <<>>, options |-> {}]

NoResponse ==
    [kind |-> "none", value |-> <<>>, error_list |-> <<>>, name |-> "", built |-> <<>>,
     calls |-> <<>>]

InitSd ==
    /\ rows = <<>>
    /\ now = 0
    /\ inserted = {}
    /\ pending = [p \in Procs |-> Idle]
    /\ firstCall = [pk \in Ids |-> NULL]
    /\ regressed = [pk \in Ids |-> FALSE]
    /\ ndel = [pk \in Ids |-> 0]
    /\ ncalls = 0

InitPw ==
    /\ request = NoRequest
    /\ response = NoResponse

Init == InitSd /\ InitPw

\* the clock advances; timezone.now() never goes back
Tick ==
    /\ now < MaxTime
    /\ now' = now + 1
    /\ UNCHANGED <<rows, inserted, pending, firstCall, regressed, ndel, ncalls>>
    /\ UNCHANGED pwVars

\* normal insertion: the next primary key, date_deleted null
Insert ==
    /\ Cardinality(inserted) < MaxRecords
    /\ LET pk == Cardinality(inserted) + 1 IN
        /\ rows' = [k \in DOMAIN rows \cup {pk} |-> IF k = pk THEN NULL ELSE rows[k]]
        /\ inserted' = inserted \cup {pk}
    /\ UNCHANGED <<now, pending, firstCall, regressed, ndel, ncalls>>
    /\ UNCHANGED pwVars

\* Callers are interchangeable: a call takes the first caller slot when it is
\* free, the second only to overlap a call that is in flight.
CanStart(p) ==
    /\ pending[p] = Idle
    /\ (p = "p2" => pending["p1"] # Idle)

\* ParanoidModel.delete, first half: the argument timezone.now() is evaluated
ModelDeleteCall(p, pk) ==
    /\ CanStart(p)
    /\ ncalls < MaxCalls
    /\ ncalls' = ncalls + 1
    /\ pk \in inserted
    /\ pending' = [pending EXCEPT ![p] = [op |-> "model_delete", ids |-> {pk}, t |-> now]]
    /\ firstCall' = [firstCall EXCEPT ![pk] = Earliest(@, now)]
    /\ UNCHANGED <<rows, now, inserted, regressed, ndel>>
    /\ UNCHANGED pwVars

\* ParanoidModel.delete, second half: self.update(date_deleted=t) runs
ModelDeleteWrite(p) ==
    /\ pending[p].op = "model_delete"
    /\ LET pk == CHOOSE k \in pending[p].ids : TRUE
           t == pending[p].t
           hit == pk \in DOMAIN rows
       IN
        /\ rows' = ParanoidModel_delete(rows, pk, t)
        /\ regressed' = IF hit THEN [regressed EXCEPT ![pk] = @ \/ Regresses(rows[pk], t)] ELSE regressed
        /\ ndel' = IF hit THEN [ndel EXCEPT ![pk] = Min(@ + 1, 2)] ELSE ndel
    /\ pending' = [pending EXCEPT ![p] = Idle]
    /\ UNCHANGED <<now, inserted, firstCall, ncalls>>
    /\ UNCHANGED pwVars

\* ParanoidQuerySet.delete on objects.filter(pk__in=ids), first half
QuerySetDeleteCall(p, ids) ==
    /\ CanStart(p)
    /\ ncalls < MaxCalls
    /\ ncalls' = ncalls + 1
    /\ pending' = [pending EXCEPT ![p] = [op |-> "queryset_delete", ids |-> ids, t |-> now]]
    /\ firstCall' = [k \in Ids |-> IF k \in ids THEN Earliest(firstCall[k], now)
                                              ELSE firstCall[k]]
    /\ UNCHANGED <<rows, now, inserted, regressed, ndel>>
    /\ UNCHANGED pwVars

\* ParanoidQuerySet.delete, second half: the UPDATE runs, its WHERE evaluated now
QuerySetDeleteWrite(p) ==
    /\ pending[p].op = "queryset_delete"
    /\ LET ids == pending[p].ids
           t == pending[p].t
           hit == {pk \in DOMAIN rows : rows[pk] = NULL /\ pk \in ids}
       IN
        /\ rows' = ParanoidQuerySet_delete(rows, ids, t)
        /\ regressed' = [pk \in Ids |-> regressed[pk] \/ (pk \in hit /\ Regresses(rows[pk], t))]
    /\ pending' = [pending EXCEPT ![p] = Idle]
    /\ UNCHANGED <<now, inserted, firstCall, ndel, ncalls>>
    /\ UNCHANGED pwVars

\* with_deleted.filter(pk__in=ids).delete(): with_deleted is a plain BaseManager,
\* its query set is not a ParanoidQuerySet
WithDeletedDelete(ids) ==
    /\ ids \cap DOMAIN rows # {}
    /\ rows' = BaseQuerySet_delete(rows, ids)
    /\ UNCHANGED <<now, inserted, pending, firstCall, regressed, ndel, ncalls>>
    /\ UNCHANGED pwVars

Next ==
    \/ Tick
    \/ Insert
    \/ \E p \in Procs, pk \in Ids : ModelDeleteCall(p, pk)
    \/ \E p \in Procs : ModelDeleteWrite(p)
    \/ \E p \in Procs, ids \in SUBSET Ids : QuerySetDeleteCall(p, ids)
    \/ \E p \in Procs : QuerySetDeleteWrite(p)
    \/ \E ids \in SUBSET Ids : WithDeletedDelete(ids)

Spec == Init /\ [][Next]_vars

---------------------------------------------------------------------------
(* Soft-delete record: properties *)

AllIdle == \A p \in Procs : pending[p] = Idle

\* C1: a single-record delete that reaches an Alive record leaves it out of the
\* default retrieval path and in the unfiltered one, with a non-null deletion
\* timestamp that is not earlier than the time of the call.
C1_SoftDelete ==
    [][\A p \in Procs, pk \in Ids :
        (/\ pending[p].op = "model_delete"
         /\ pending[p].ids = {pk}
         /\ pending'[p] = Idle
         /\ pk \in DOMAIN rows
         /\ rows[pk] = NULL)
        => (/\ pk \notin ParanoidManager_get_queryset(rows')
            /\ pk \in with_deleted(rows')
            /\ rows'[pk] # NULL
            /\ TimeOf(rows'[pk]) >= pending[p].t
            /\ TimeOf(rows'[pk]) >= TimeOf(firstCall[pk]))]_vars

\* the only call made so far was a single-record delete of an Alive record
C1_Witness ==
    \E pk \in DOMAIN rows :
        /\ ncalls = 1
        /\ ndel[pk] = 1
        /\ rows[pk] # NULL
        /\ pk \notin ParanoidManager_get_queryset(rows)
        /\ pk \in with_deleted(rows)

\* C2: a bulk delete stamps every record of the filtered set (alive and selected
\* by the filter) with the call's time and leaves every other record's
\* deletion timestamp as it was.
C2_BulkDelete ==
    [][\A p \in Procs :
        (pending[p].op = "queryset_delete" /\ pending'[p] = Idle)
        => LET matching == {pk \in DOMAIN rows : rows[pk] = NULL /\ pk \in pending[p].ids}
           IN /\ DOMAIN rows' = DOMAIN rows
              /\ \A pk \in matching : rows'[pk] = Stamp(pending[p].t)
              /\ \A pk \in DOMAIN rows \ matching : rows'[pk] = rows[pk]]_vars

\* record 2 was deleted in bulk (never by a single-record delete) while record 1,
\* inserted before it, is still alive
C2_Witness ==
    /\ DOMAIN rows = {1, 2}
    /\ rows[2] # NULL
    /\ ndel[2] = 0
    /\ rows[1] = NULL
    /\ AllIdle

\* C3: every record ever inserted is still stored and still returned by the
\* unfiltered retrieval path, whatever delete operations ran.
C3_NoPhysicalRemoval == inserted \subseteq with_deleted(rows)

\* C4: a record whose deletion timestamp is set never gets it unset and never
\* comes back into the default retrieval path.
C4_Irreversible ==
    [][\A pk \in DOMAIN rows :
        rows[pk] # NULL
        => (/\ pk \notin ParanoidManager_get_queryset(rows')
            /\ (pk \in DOMAIN rows' => rows'[pk] # NULL))]_vars

\* a record deleted at an earlier time is still Deleted after every call completed
C4_Witness ==
    \E pk \in DOMAIN rows :
        /\ rows[pk] # NULL
        /\ TimeOf(rows[pk]) < now
        /\ ncalls = MaxCalls
        /\ AllIdle

\* C5: after two single-record deletes of the same record, the record is Deleted
\* with a timestamp not earlier than the time of the first call.
C5_Idempotent ==
    \A pk \in DOMAIN rows :
        ndel[pk] = 2
        => (/\ rows[pk] # NULL
            /\ pk \notin ParanoidManager_get_queryset(rows)
            /\ TimeOf(rows[pk]) >= TimeOf(firstCall[pk]))

\* two deletes in sequence, the second at a later time than the first
C5_Witness ==
    \E pk \in DOMAIN rows :
        /\ ndel[pk] = 2
        /\ ~regressed[pk]
        /\ rows[pk] # NULL
        /\ TimeOf(rows[pk]) > TimeOf(firstCall[pk])

\* a step in which caller p's delete lands on record pk
Lands(p, pk) ==
    /\ pending[p].op \in {"model_delete", "queryset_delete"}
    /\ pending'[p] = Idle
    /\ pk \in pending[p].ids
    /\ pk \in DOMAIN rows
    /\ (pending[p].op = "queryset_delete" => rows[pk] = NULL)

\* C6: under every interleaving of delete calls, each write that lands on a
\* record leaves it Deleted with the value that write carries, nothing else
\* changes a stored deletion timestamp (so the final timestamp is that of the
\* write that landed last), and the timestamp is never earlier than the time of
\* the earliest call against the record.
C6_LastWriteWins ==
    [][\A pk \in DOMAIN rows :
        /\ \A p \in Procs :
            Lands(p, pk) => (/\ pk \in DOMAIN rows'
                             /\ rows'[pk] = Stamp(pending[p].t)
                             /\ pending[p].t >= TimeOf(firstCall[pk]))
        /\ (pk \in DOMAIN rows' /\ rows'[pk] # rows[pk])
            => \E p \in Procs : Lands(p, pk)]_vars

\* a race: the write that landed last carried the earlier time
C6_Witness ==
    \E pk \in DOMAIN rows :
        /\ regressed[pk]
        /\ AllIdle
        /\ rows[pk] = firstCall[pk]
        /\ TimeOf(rows[pk]) < now

\* C9: from any state, deleting a record through the instance and deleting it in
\* bulk through the default retrieval path filtered to that record leave the
\* same storage.
C9_SingleBulkConsistent ==
    \A pk \in DOMAIN rows :
        ParanoidModel_delete(rows, pk, now) = ParanoidQuerySet_delete(rows, {pk}, now)

---------------------------------------------------------------------------
(* Password validator pipeline *)

\* def __init__(self, max_length=256)
DEFAULT_MAX_LENGTH == 256

MaximumLengthValidatorName == "sentry.auth.password_validation.MaximumLengthValidator"

UnresolvableNames == {"missing.ValidatorA", "missing.ValidatorB"}

\* a password of n characters
Password(n) == [i \in 1..n |-> "a"]

PwLens == (0..MaxPwLen) \cup {DEFAULT_MAX_LENGTH - 1, DEFAULT_MAX_LENGTH, DEFAULT_MAX_LENGTH + 1}

Passwords == {Password(n) : n \in PwLens}

\* an OPTIONS mapping, as a set of <<key, value>> pairs
NoOptions == {}

OptionSets == {NoOptions} \cup {{<<"max_length", n>>} : n \in 0..MaxLimit}

HasOption(options, key) == \E kv \in options : kv[1] = key

OptionValue(options, key) == (CHOOSE kv \in options : kv[1] = key)[2]

\* a validator descriptor of AUTH_PASSWORD_VALIDATORS
Descriptors ==
    {[NAME |-> MaximumLengthValidatorName, OPTIONS |-> o] : o \in OptionSets}
    \cup {[NAME |-> n, OPTIONS |-> NoOptions] : n \in UnresolvableNames}

RECURSIVE SeqsUpTo(_, _)
SeqsUpTo(S, n) ==
    IF n = 0 THEN {<<>>}
    ELSE LET shorter == SeqsUpTo(S, n - 1)
         IN shorter \cup {Append(q, x) : q \in {r \in shorter : Len(r) = n - 1}, x \in S}

Configs == SeqsUpTo(Descriptors, MaxValidators)

\* import_string(name): a class, or ImportError
Resolves(name) == name = MaximumLengthValidatorName

import_string(name) == "MaximumLengthValidator"

\* MaximumLengthValidator.__init__
MaximumLengthValidator_init(options) ==
    [cls |-> "MaximumLengthValidator",
     max_length |-> IF HasOption(options, "max_length")
                    THEN OptionValue(options, "max_length")
                    ELSE DEFAULT_MAX_LENGTH]

\* cls(**options)
Construct(cls, options) == MaximumLengthValidator_init(options)

Instances == {MaximumLengthValidator_init(o) : o \in OptionSets}

ValidatorLists == SeqsUpTo(Instances, MaxValidators)

\* ngettext(singular, plural, n)
ngettext(n) == IF n = 1 THEN "singular" ELSE "plural"

NoError == <<>>

\* ValidationError(message, code=..., params=...): error_list is [self]
SingleError(code, message, params) ==
    <<[code |-> code, message |-> message, params |-> params]>>

\* faulty variant: the comparison is >= instead of >
M_validate_off_by_one(self, password) ==
    IF Len(password) >= self.max_length
    THEN SingleError("password_too_long", ngettext(self.max_length), self.max_length)
    ELSE NoError

\* MaximumLengthValidator.validate: the error it raises, or NoError
MaximumLengthValidator_validate(self, password) ==
    IF Len(password) > self.max_length
    THEN SingleError("password_too_long", ngettext(self.max_length), self.max_length)
    ELSE NoError

\* get_password_validators: the loop from descriptor i on, `validators` built so far
RECURSIVE GetLoop(_, _, _)
GetLoop(validator_config, i, validators) ==
    IF i > Len(validator_config)
    THEN [kind |-> "return", value |-> validators, error_list |-> <<>>, name |-> "",
          built |-> validators, calls |-> <<>>]
    ELSE LET validator == validator_config[i] IN
         IF ~Resolves(validator.NAME)
         THEN [kind |-> "ImproperlyConfigured", value |-> <<>>, error_list |-> <<>>,
               name |-> validator.NAME, built |-> validators, calls |-> <<>>]
         ELSE GetLoop(validator_config, i + 1,
                      Append(validators,
                             Construct(import_string(validator.NAME), validator.OPTIONS)))

\* faulty variant: an unresolvable name is skipped instead of raised
RECURSIVE M_GetLoopSkip(_, _, _)
M_GetLoopSkip(validator_config, i, validators) ==
    IF i > Len(validator_config)
    THEN [kind |-> "return", value |-> validators, error_list |-> <<>>, name |-> "",
          built |-> validators, calls |-> <<>>]
    ELSE LET validator == validator_config[i] IN
         IF ~Resolves(validator.NAME)
         THEN M_GetLoopSkip(validator_config, i + 1, validators)
         ELSE M_GetLoopSkip(validator_config, i + 1,
                            Append(validators,
                                   Construct(import_string(validator.NAME), validator.OPTIONS)))

M_get_password_validators_skip(validator_config) == M_GetLoopSkip(validator_config, 1, <<>>)

get_password_validators(validator_config) == GetLoop(validator_config, 1, <<>>)

\* get_default_password_validators, settings.AUTH_PASSWORD_VALIDATORS given
get_default_password_validators(settings) == get_password_validators(settings)

\* validate_password: the loop from validator i on; errors collected and
\* validators invoked so far
RECURSIVE ValidateLoop(_, _, _, _, _)
ValidateLoop(password, password_validators, i, errors, calls) ==
    IF i > Len(password_validators)
    THEN [errors |-> errors, calls |-> calls]
    ELSE LET error == MaximumLengthValidator_validate(password_validators[i], password) IN
         ValidateLoop(password, password_validators, i + 1,
                      IF error # NoError THEN Append(errors, error) ELSE errors,
                      Append(calls, i))

\* faulty variant: the loop stops at the first failure
RECURSIVE M_ValidateLoopFirst(_, _, _, _, _)
M_ValidateLoopFirst(password, password_validators, i, errors, calls) ==
    IF i > Len(password_validators) \/ errors # <<>>
    THEN [errors |-> errors, calls |-> calls]
    ELSE LET error == MaximumLengthValidator_validate(password_validators[i], password) IN
         M_ValidateLoopFirst(password, password_validators, i + 1,
                             IF error # NoError THEN Append(errors, error) ELSE errors,
                             Append(calls, i))

\* ValidationError(errors): error_list is the concatenation of the errors' error_lists
RECURSIVE Flatten(_)
Flatten(errors) ==
    IF errors = <<>> THEN <<>> ELSE Head(errors) \o Flatten(Tail(errors))

Raise(done) ==
    IF done.errors # <<>>
    THEN [kind |-> "ValidationError", value |-> <<>>, error_list |-> Flatten(done.errors),
          name |-> "", built |-> <<>>, calls |-> done.calls]
    ELSE [kind |-> "return", value |-> <<>>, error_list |-> <<>>, name |-> "",
          built |-> <<>>, calls |-> done.calls]

M_validate_password_first(password, password_validators) ==
    Raise(M_ValidateLoopFirst(password, password_validators, 1, <<>>, <<>>))

\* validate_password with a validator list
validate_password(password, password_validators) ==
    Raise(ValidateLoop(password, password_validators, 1, <<>>, <<>>))

Request(op, password, config, validators, options) ==
    [op |-> op, password |-> password, config |-> config, validators |-> validators,
     options |-> options]

\* the calls into the module, with their arguments
Requests ==
    {Request("get_password_validators", <<>>, c, <<>>, {}) : c \in Configs}
    \cup {Request("validate_password", pw, <<>>, vs, {}) :
            pw \in Passwords, vs \in ValidatorLists}
    \cup {Request("validate_password_default", pw, c, <<>>, {}) :
            pw \in Passwords, c \in Configs}
    \cup {Request("MaximumLengthValidator.validate", pw, <<>>, <<>>, o) :
            pw \in Passwords, o \in OptionSets}

Called == response.kind # "none"

\* get_password_validators(validator_config)
CallGetPasswordValidators ==
    /\ request.op = "get_password_validators"
    /\ ~Called
    /\ response' = get_password_validators(request.config)
    /\ UNCHANGED <<request, rows, now, inserted, pending, firstCall, regressed,
                   ndel, ncalls>>

\* validate_password(password, password_validators=password_validators)
CallValidatePassword ==
    /\ request.op = "validate_password"
    /\ ~Called
    /\ response' = [validate_password(request.password, request.validators)
                        EXCEPT !.built = request.validators]
    /\ UNCHANGED <<request, rows, now, inserted, pending, firstCall, regressed,
                   ndel, ncalls>>

\* validate_password(password) with password_validators None: the list comes
\* from settings.AUTH_PASSWORD_VALIDATORS (request.config)
CallValidatePasswordDefault ==
    /\ request.op = "validate_password_default"
    /\ ~Called
    /\ LET got == get_default_password_validators(request.config) IN
       response' = IF got.kind = "ImproperlyConfigured"
                   THEN got
                   ELSE [validate_password(request.password, got.value)
                            EXCEPT !.built = got.value]
    /\ UNCHANGED <<request, rows, now, inserted, pending, firstCall, regressed,
                   ndel, ncalls>>

\* MaximumLengthValidator(**options).validate(password)
CallMaximumLengthValidate ==
    /\ request.op = "MaximumLengthValidator.validate"
    /\ ~Called
    /\ LET self == MaximumLengthValidator_init(request.options)
           error == MaximumLengthValidator_validate(self, request.password)
       IN response' = [kind |-> IF error = NoError THEN "return" ELSE "ValidationError",
                       value |-> <<>>, error_list |-> error, name |-> "",
                       built |-> <<self>>, calls |-> <<>>]
    /\ UNCHANGED <<request, rows, now, inserted, pending, firstCall, regressed,
                   ndel, ncalls>>

InitCalls ==
    /\ InitSd
    /\ request \in Requests
    /\ response = NoResponse

NextPw ==
    \/ CallGetPasswordValidators
    \/ CallValidatePassword
    \/ CallValidatePasswordDefault
    \/ CallMaximumLengthValidate

SpecPw == InitCalls /\ [][NextPw]_vars

---------------------------------------------------------------------------
(* Password validator pipeline: properties *)

\* a validator rejects a password longer than its limit
Rejects(validator, password) == Len(password) > validator.max_length

IsValidateCall ==
    /\ Called
    /\ request.op \in {"validate_password", "validate_password_default"}
    /\ response.kind # "ImproperlyConfigured"

\* the validator list a validate_password call ran: the one passed in, or the
\* one built from the settings
ValidatorsUsed ==
    IF request.op = "validate_password" THEN request.validators ELSE response.built

\* C7: validate_password invokes every validator once, in list order; it
\* returns when none rejects the password and otherwise raises one
\* ValidationError holding exactly one failure per rejecting validator, in
\* validator order.
C7_Aggregating ==
    IsValidateCall
    => LET used == ValidatorsUsed
           rejecting == SelectSeq(used, LAMBDA v : Rejects(v, request.password))
           K == Len(rejecting)
       IN /\ response.calls = [i \in 1..Len(used) |-> i]
          /\ (K = 0 => response.kind = "return" /\ response.error_list = <<>>)
          /\ (K >= 1 =>
                /\ response.kind = "ValidationError"
                /\ Len(response.error_list) = K
                /\ \A j \in 1..K :
                    /\ response.error_list[j].code = "password_too_long"
                    /\ response.error_list[j].params = rejecting[j].max_length)

\* three validators, the first and the last reject, the one between accepts
C7_Witness ==
    /\ IsValidateCall
    /\ Len(ValidatorsUsed) = 3
    /\ Rejects(ValidatorsUsed[1], request.password)
    /\ ~Rejects(ValidatorsUsed[2], request.password)
    /\ Rejects(ValidatorsUsed[3], request.password)
    /\ ValidatorsUsed[1].max_length # ValidatorsUsed[3].max_length
    /\ Len(response.error_list) = 2

HasUnresolvable(config) == \E i \in 1..Len(config) : ~Resolves(config[i].NAME)

FirstUnresolvable(config) ==
    CHOOSE i \in 1..Len(config) :
        /\ ~Resolves(config[i].NAME)
        /\ \A j \in 1..(i - 1) : Resolves(config[j].NAME)

IsGetCall == Called /\ request.op = "get_password_validators"

\* C8 as stated: with an unresolvable name anywhere in the list,
\* get_password_validators raises ImproperlyConfigured naming it before any
\* validator instance is built.
C8_FailsBeforeAnyInstance ==
    (IsGetCall /\ HasUnresolvable(request.config))
    => /\ response.kind = "ImproperlyConfigured"
       /\ response.name = request.config[FirstUnresolvable(request.config)].NAME
       /\ response.built = <<>>

\* C8 amended: with an unresolvable name anywhere in the list,
\* get_password_validators raises ImproperlyConfigured naming the first such
\* name and returns no list; the instances built before the error are exactly
\* those of the descriptors that precede that name, none for it or after it.
C8_FailsAtFirstUnresolvable ==
    (IsGetCall /\ HasUnresolvable(request.config))
    => LET k == FirstUnresolvable(request.config) IN
       /\ response.kind = "ImproperlyConfigured"
       /\ response.name = request.config[k].NAME
       /\ response.value = <<>>
       /\ response.built =
            [i \in 1..(k - 1) |-> MaximumLengthValidator_init(request.config[i].OPTIONS)]

\* a resolvable descriptor, then two different unresolvable names: the first of
\* them is reported, after one instance was built
C8_Witness ==
    /\ IsGetCall
    /\ Len(request.config) = 3
    /\ Resolves(request.config[1].NAME)
    /\ ~Resolves(request.config[2].NAME)
    /\ ~Resolves(request.config[3].NAME)
    /\ request.config[2].NAME # request.config[3].NAME
    /\ response.kind = "ImproperlyConfigured"
    /\ response.name = request.config[2].NAME
    /\ Len(response.built) = 1

\* C10: MaximumLengthValidator.validate succeeds on a password of at most
\* max_length characters and fails with code password_too_long on a longer one;
\* without the option the limit is 256.
C10_MaxLengthBoundary ==
    (Called /\ request.op = "MaximumLengthValidator.validate")
    => LET limit == IF request.options = {} THEN 256
                    ELSE OptionValue(request.options, "max_length")
       IN /\ (Len(request.password) <= limit =>
                response.kind = "return" /\ response.error_list = <<>>)
          /\ (Len(request.password) > limit =>
                /\ response.kind = "ValidationError"
                /\ Len(response.error_list) = 1
                /\ response.error_list[1].code = "password_too_long"
                /\ response.error_list[1].params = limit)

\* the default limit: 256 characters pass, and a call with 257 fails
C10_Witness ==
    /\ Called
    /\ request.op = "MaximumLengthValidator.validate"
    /\ request.options = {}
    /\ Len(request.password) = 257
    /\ response.kind = "ValidationError"

===========================================================================
